---- MODULE Spec2Model ----
(***************************************************************************)
(* The batch scan-and-cache pipeline of the A-share buy point scanner      *)
(* (App/pages/stock_scanner.py): the Start Scan handler with its universe  *)
(* fetch (get_tradable_stocks) and its per-symbol loop (scan_stocks), and  *)
(* the date-keyed universe and symbol-analysis caches.                     *)
(*                                                                         *)
(* Text is modelled as a sequence of one-character strings, so that prefix *)
(* tests and replacements are computed as the code computes them.  Time is *)
(* counted in ticks, TicksPerDay ticks to a calendar day; a calendar date  *)
(* is a day number, and datetime(y, m, d) of day d is the tick d *         *)
(* TicksPerDay (midnight).  An optional value is a sequence of length 0    *)
(* (None / absent) or 1.                                                   *)
(***************************************************************************)
EXTENDS Integers, Sequences, FiniteSets, TLC

\* ------------------------------------------------------------------ bounds
TicksPerDay == 2        \* clock resolution: tick 0 of a day is midnight
Day0 == 20              \* calendar day on which the session starts
MaxTicks == 1           \* how far the clock may advance during a session
MaxListing == 2         \* rows of the provider listing
MaxSignals == 2         \* signals of one engine result
MaxRecentDays == 2      \* largest recent_days the user may choose
MaxFetches == 2         \* universe fetches of a session
MaxCacheExtra == 1      \* signals per direction beyond CachePointLimit in a cached list
MaxRaw == 2             \* rows of a raw provider listing
MaxBlocks == 2          \* blocks of a cache payload
MaxDbCalls == 4         \* calls made on one MySQL_API instance
MaxArchives == 2        \* presses of Save Results in a session

\* ------------------------------------------------------- program constants
StaleDays == 15         \* freshness guard of scan_stocks
CachePointLimit == 20   \* descriptors kept per direction by save_analysis_cache

None == <<>>
Some(x) == <<x>>

\* --------------------------------------------------------------- text
SH == <<"s", "h", ".">>
SZ == <<"s", "z", ".">>
ST == <<"S", "T">>

StartsWith(s, p) == Len(s) >= Len(p) /\ SubSeq(s, 1, Len(p)) = p

\* str.upper on the letters the filters look at
Upper(s) == [i \in 1..Len(s) |->
               IF s[i] = "s" THEN "S" ELSE IF s[i] = "t" THEN "T" ELSE s[i]]

\* pandas str.contains(pat, case=False)
ContainsNoCase(s, pat) ==
    \E i \in 1..Len(s) :
        /\ i + Len(pat) - 1 <= Len(s)
        /\ SubSeq(Upper(s), i, i + Len(pat) - 1) = Upper(pat)

\* pandas str.replace(pat, ''): every occurrence of the literal pat is removed
RECURSIVE StrRemove(_, _)
StrRemove(s, pat) ==
    IF s = <<>> THEN <<>>
    ELSE IF StartsWith(s, pat) THEN StrRemove(SubSeq(s, Len(pat) + 1, Len(s)), pat)
    ELSE <<s[1]>> \o StrRemove(SubSeq(s, 2, Len(s)), pat)

\* ------------------------------------------------------------ the provider
\* The listing the provider holds: qualified code, display name, trade status.
ProviderRows ==
    << [code |-> SH \o <<"6", "0", "0", "0", "0", "0">>, code_name |-> <<"P", "F">>,
        tradeStatus |-> "1"],
       [code |-> SZ \o <<"0", "0", "0", "0", "0", "1">>, code_name |-> <<"P", "A">>,
        tradeStatus |-> "1"],
       [code |-> SH \o <<"6", "8", "8", "0", "0", "1">>, code_name |-> <<"H", "X">>,
        tradeStatus |-> "1"],
       [code |-> SZ \o <<"0", "0", "0", "0", "0", "2">>, code_name |-> <<"*", "s", "t", "W">>,
        tradeStatus |-> "1"] >>

Min(a, b) == IF a <= b THEN a ELSE b

\* What the provider does during one get_tradable_stocks call.
\* login: bs.login() returns an error code, raises, or succeeds; query: the
\* listing query returns None, an error code, raises, or a row set; read_raise:
\* 0, or the position of the row at which reading the row set raises;
\* has_columns: the row set has the columns code and code_name; has_status: it
\* has the column tradeStatus; filter_raise: normalising or filtering raises.
Behaviour(login, query, rows, read_raise, has_columns, has_status, filter_raise) ==
    [login |-> login, query |-> query, rows |-> rows, read_raise |-> read_raise,
     has_columns |-> has_columns, has_status |-> has_status, filter_raise |-> filter_raise]

ProviderBehaviours ==
    {Behaviour("error", "none", <<>>, 0, TRUE, TRUE, FALSE),
     Behaviour("raise", "none", <<>>, 0, TRUE, TRUE, FALSE),
     Behaviour("ok", "none", <<>>, 0, TRUE, TRUE, FALSE),
     Behaviour("ok", "error", <<>>, 0, TRUE, TRUE, FALSE)}
    \cup {Behaviour("ok", "rows", SubSeq(ProviderRows, 1, n), 0, TRUE, TRUE, FALSE) :
            n \in 0..Min(MaxListing, Len(ProviderRows))}

\* The exclusion predicates of the chain, in the order they are applied.
FilterPredicates == {"a_share", "st", "8", "43", "200", "900", "920", "status"}

\* The chain of get_tradable_stocks with the predicates preds, on the rows read
\* from the provider: the exchange-tag filter, the normalisation, the other
\* filters.
FilterChainOf(rows, has_status, preds) ==
    LET aShare == IF "a_share" \in preds
                  THEN SelectSeq(rows, LAMBDA r : StartsWith(r.code, SH) \/ StartsWith(r.code, SZ))
                  ELSE rows
        norm   == [i \in 1..Len(aShare) |->
                     [code |-> StrRemove(StrRemove(aShare[i].code, SH), SZ),
                      name |-> aShare[i].code_name,
                      tradeStatus |-> aShare[i].tradeStatus]]
        keep(r) == /\ "st" \in preds => ~ContainsNoCase(r.name, ST)
                   /\ "8" \in preds => ~StartsWith(r.code, <<"8">>)
                   /\ "43" \in preds => ~StartsWith(r.code, <<"4", "3">>)
                   /\ "200" \in preds => ~StartsWith(r.code, <<"2", "0", "0">>)
                   /\ "900" \in preds => ~StartsWith(r.code, <<"9", "0", "0">>)
                   /\ "920" \in preds => ~StartsWith(r.code, <<"9", "2", "0">>)
                   /\ ("status" \in preds /\ has_status) => r.tradeStatus = "1"
        kept   == SelectSeq(norm, keep)
    IN  [i \in 1..Len(kept) |-> [code |-> kept[i].code, name |-> kept[i].name]]

FilterChain_Reversed(rows, has_status) ==
    LET out == FilterChainOf(rows, has_status, FilterPredicates)
    IN  [i \in 1..Len(out) |-> out[Len(out) + 1 - i]]
\* The exclusion chain of get_tradable_stocks on the rows read from the provider.
FilterChain(rows, has_status) == FilterChainOf(rows, has_status, FilterPredicates)

\* The chain on a row set that has the column tradeStatus.
FilterRows(rows) == FilterChain(rows, TRUE)

\* The rows collected by the read loop: all of them, or those before the row
\* at which reading raised.
RowsRead(b) ==
    IF b.read_raise = 0 THEN b.rows ELSE SubSeq(b.rows, 1, Min(b.read_raise - 1, Len(b.rows)))

Run(df, calls, msgs) == [df |-> df, calls |-> calls, msgs |-> msgs]

OuterExcept_NoLogout(lg, calls) == Run(<<>>, calls, <<"error">>)
\* except Exception: st.error, bs.logout() if lg is set, empty DataFrame.
OuterExcept(lg, calls) ==
    Run(<<>>, IF lg THEN Append(calls, "logout") ELSE calls, <<"error">>)

\* One call of get_tradable_stocks against a provider that behaves as b: the
\* DataFrame returned (<<>> is the empty DataFrame), the provider calls made, in
\* order, and the messages shown (st.error, st.warning), in order.
TradableStocksRun(b) ==
    IF b.login = "raise" THEN OuterExcept(FALSE, <<"login">>)
    ELSE IF b.login = "error" THEN Run(<<>>, <<"login">>, <<"error">>)
    ELSE IF b.query = "raise" THEN OuterExcept(TRUE, <<"login", "query">>)
    ELSE IF b.query \in {"none", "error"}
         THEN Run(<<>>, <<"login", "query", "logout">>, <<"error">>)
    ELSE LET stock_list == RowsRead(b)
         IN  IF stock_list = <<>>
             THEN Run(<<>>, <<"login", "query", "logout">>,
                      IF b.read_raise # 0 THEN <<"error">> ELSE <<"warning">>)
             ELSE IF ~b.has_columns
                  THEN Run(<<>>, <<"login", "query", "logout">>, <<"error">>)
             ELSE IF b.filter_raise
                  THEN OuterExcept(TRUE, <<"login", "query", "logout">>)
             ELSE LET result == FilterChain(stock_list, b.has_status)
                  IN  Run(result, <<"login", "query", "logout">>,
                          IF result = <<>> THEN <<"warning">> ELSE <<>>)

\* The DataFrame get_tradable_stocks returns.
GetTradableStocks(p) == TradableStocksRun(p).df

\* The rows a raw listing is made of: the two exchange tags with the same
\* numeric code, every documented exclusion, and an ordinary row.
RawRow(tag, code, name, status) ==
    [code |-> tag \o code, code_name |-> name, tradeStatus |-> status]

BJ == <<"b", "j", ".">>

RawRows ==
    << RawRow(SH, <<"0", "0", "0", "0", "0", "1">>, <<"I", "X">>, "1"),
       RawRow(SZ, <<"0", "0", "0", "0", "0", "1">>, <<"P", "A">>, "1"),
       RawRow(SH, <<"6", "0", "0", "0", "0", "0">>, <<"P", "F">>, "1"),
       RawRow(SH, <<"6", "8", "8", "0", "0", "1">>, <<"H", "X">>, "1"),
       RawRow(SZ, <<"0", "0", "0", "0", "0", "2">>, <<"*", "s", "t", "W">>, "1"),
       RawRow(BJ, <<"8", "3", "0", "0", "0", "1">>, <<"B", "J">>, "1"),
       RawRow(SZ, <<"4", "3", "0", "0", "0", "1">>, <<"N", "Q">>, "1"),
       RawRow(SZ, <<"2", "0", "0", "0", "1", "1">>, <<"B", "Z">>, "1"),
       RawRow(SH, <<"9", "0", "0", "9", "0", "1">>, <<"B", "H">>, "1"),
       RawRow(SH, <<"9", "2", "0", "0", "0", "1">>, <<"C", "D">>, "1"),
       RawRow(SZ, <<"0", "0", "0", "0", "0", "3">>, <<"T", "P">>, "0") >>

\* Raw listings: up to MaxRaw rows, no row listed twice.
RawListings ==
    {[i \in 1..Len(l) |-> RawRows[l[i]]] :
        l \in {m \in UNION {[1..k -> 1..Len(RawRows)] : k \in 0..MaxRaw} :
                    \A i, j \in 1..Len(m) : i # j => m[i] # m[j]}}

\* Everything the provider can do during one call.
ListingBehaviours ==
    {Behaviour("error", "none", <<>>, 0, TRUE, TRUE, FALSE),
     Behaviour("raise", "none", <<>>, 0, TRUE, TRUE, FALSE),
     Behaviour("ok", "none", <<>>, 0, TRUE, TRUE, FALSE),
     Behaviour("ok", "error", <<>>, 0, TRUE, TRUE, FALSE),
     Behaviour("ok", "raise", <<>>, 0, TRUE, TRUE, FALSE)}
    \cup {Behaviour("ok", "rows", rows, k, hc, hs, fr) :
            rows \in RawListings, k \in 0..(MaxRaw + 1),
            hc \in BOOLEAN, hs \in BOOLEAN, fr \in BOOLEAN}

\* ------------------------------------------------------------- the engine
\* A signal of the engine (CBS_Point): direction, what type2str() returns, and
\* the calendar day of its bar (klu.time).
BspTypes == {"1", "2"}
SignalDays == (Day0 - 2)..(Day0 + 1)
Signals == [is_buy : BOOLEAN, type : BspTypes, time : SignalDays]

\* The day of the most recent bar of an engine result: stale by one day, on the
\* staleness boundary, of the session's first day, of the day after.
LastBarDays == {Day0 - StaleDays - 1, Day0 - StaleDays, Day0, Day0 + 1}

SeqsUpTo(S, n) == UNION {[1..k -> S] : k \in 0..n}

IsLatestFirst(l) == \A i \in 1..(Len(l) - 1) : l[i].time >= l[i + 1].time

\* get_latest_bsp(number=0): all signals of the result, ranked latest first;
\* no signal is dated after the last bar.
GetLatestBsp(last_bar) ==
    {l \in SeqsUpTo(Signals, MaxSignals) :
        IsLatestFirst(l) /\ \A i \in 1..Len(l) : l[i].time <= last_bar}

\* What the engine does for one symbol when it returns a result whose last bar
\* is of day d: reading or formatting the signals raises (late_raise), or
\* get_latest_bsp returns a list.
BarResponses ==
    [d \in LastBarDays |->
        {[kind |-> "bars", last_bar |-> Some(d), late_raise |-> TRUE, bsp_list |-> <<>>]}
        \cup {[kind |-> "bars", last_bar |-> Some(d), late_raise |-> FALSE, bsp_list |-> l] :
                l \in GetLatestBsp(d)}]

\* What the engine does for one symbol when it returns no usable result: the
\* constructor raises, or the result has zero bars (last_bar = None).
NoBarResponses ==
    {[kind |-> "raise", last_bar |-> None, late_raise |-> FALSE, bsp_list |-> <<>>],
     [kind |-> "bars", last_bar |-> None, late_raise |-> FALSE, bsp_list |-> <<>>]}

\* str(klu.time)
TimeStr(t) == <<"date", t>>

\* ---------------------------------------------------------------- state
VARIABLES
    now,               \* wall clock, in ticks
    pc,                \* "idle" | "report" | "analyze" | "finish"
    login_log,         \* one entry per bs.login() call: its day, whether the fetch succeeded
    stock_list,        \* the DataFrame the handler got from get_tradable_stocks
    recent_days,       \* scan_stocks argument
    cutoff_date,       \* scan_stocks local
    idx,               \* 1-based position of the row the loop is at
    success_count,
    fail_count,
    results,
    progress,          \* the count last shown by the progress bar
    status_text,       \* the status line last shown: count, total, code, name
    engine_calls,      \* the codes the engine was constructed with, in call order
    source_calls,      \* the data_src the engine was constructed with, in call order
    last_resp,         \* what the engine did for the symbol analysed last
    scan_results,      \* st.session_state['scan_results']
    scan_stats,        \* st.session_state['scan_stats']
    stock_list_files,  \* data/stock_list/<date>.csv, by day
    analysis_files,    \* data/analysis/<date>/<code>.json, by day and code
    cache_put,         \* the save_*_cache call made last, with its arguments
    cache_get,         \* the load_*_cache call made since, with what it returned
    fetch_call,        \* what the provider did during the universe fetch shown
    fetch_run,         \* that call of get_tradable_stocks: DataFrame, provider calls, messages
    fetch_report,      \* what the Start Scan handler reported for it
    single_chan,       \* st.session_state['single_chan']
    single_code,       \* st.session_state['single_code']
    single_call,       \* the Start Analysis press handled last: input, engine, outcome
    code_call,         \* a code and the full codes the three normalisations give for it
    archive_table,     \* Result/<date>/scan_results.csv, by date
    archive_stats,     \* Result/<date>/scan_stats.json, by date
    archive_charts,    \* Result/<date>/charts/<code>_<level>.html, by date and file name
    archive_log,       \* Result/<date>/charts/chart_errors.log, by date
    archive_call,      \* the save_scan_results call made last: arguments, date, return value
    archive_runs,      \* save_scan_results calls so far
    config_file,       \* App/config.json: absent, or the text of its data_source entry
    app_data_source,   \* st.session_state.app_data_source of the scanning session
    settings_write,    \* what another session is writing to config.json, while it writes
    race_scope,        \* the cache two invocations write one key of: stock_list or analysis
    race_file,         \* the blocks of that key's cache file
    race_writers,      \* each invocation's save_*_cache call: position, blocks written
    race_get,          \* the load_*_cache call of a third invocation, with what it returned
    db_connection,     \* MySQL_API.db_connection: None, an open or a closed connection
    db_log             \* the calls made on the MySQL_API instance, in order

scan_vars == <<recent_days, cutoff_date, idx, success_count, fail_count, results,
               progress, status_text, engine_calls, source_calls, last_resp>>
session_vars == <<scan_results, scan_stats>>
cache_vars == <<stock_list_files, analysis_files, cache_put, cache_get>>
universe_vars == <<fetch_call, fetch_run, fetch_report>>
single_vars == <<single_chan, single_code, single_call>>
archive_vars == <<archive_table, archive_stats, archive_charts, archive_log, archive_call,
                  archive_runs>>
config_vars == <<config_file, app_data_source, settings_write>>
race_vars == <<race_scope, race_file, race_writers, race_get>>
db_vars == <<db_connection, db_log>>
page_vars == <<universe_vars, single_vars, code_call, archive_vars, config_vars, race_vars,
               db_vars>>
vars == <<now, pc, login_log, stock_list, scan_vars, session_vars, cache_vars, page_vars>>

Today(t) == t \div TicksPerDay
Midnight(d) == d * TicksPerDay
CacheDays == Day0..(Day0 + 1 + (MaxTicks \div TicksPerDay))

\* ------------------------------------------------------------ scan_stocks
ShPrefixes == {<<"6", "0", "0">>, <<"6", "0", "1">>, <<"6", "0", "3">>,
               <<"6", "0", "5">>, <<"6", "8", "8">>}

\* The code handed to the engine.
FullCode(code) ==
    IF StartsWith(code, SH) \/ StartsWith(code, SZ) THEN code
    ELSE IF \E p \in ShPrefixes : StartsWith(code, p) THEN SH \o code
    ELSE SZ \o code

\* cutoff_date = datetime.now() - timedelta(days=recent_days)
CutoffDate(t, days) == t - days * TicksPerDay

IsStale_AtLimit(t, last_day) == ((t - Midnight(last_day)) \div TicksPerDay) >= StaleDays
\* (datetime.now() - last_date).days > 15
IsStale(t, last_day) == ((t - Midnight(last_day)) \div TicksPerDay) > StaleDays

BuyPoints_AnyDirection(bsp_list, cutoff) ==
    SelectSeq(bsp_list, LAMBDA b : Midnight(b.time) >= cutoff)
\* the recency filter
BuyPoints(bsp_list, cutoff) ==
    SelectSeq(bsp_list, LAMBDA b : b.is_buy /\ Midnight(b.time) >= cutoff)

LatestBuy_Last(buy_points) == buy_points[Len(buy_points)]
\* latest_buy = buy_points[0]
LatestBuy(buy_points) == buy_points[1]

\* One pass through the try block: what is added to success_count and to
\* fail_count, and the signal reported, if any.
SymbolOutcome(resp, t, cutoff) ==
    IF resp.kind = "raise" THEN [success |-> 0, fail |-> 1, hit |-> None]
    ELSE IF resp.last_bar = None THEN [success |-> 0, fail |-> 1, hit |-> None]
    ELSE IF IsStale(t, resp.last_bar[1]) THEN [success |-> 0, fail |-> 1, hit |-> None]
    ELSE IF resp.late_raise THEN [success |-> 1, fail |-> 1, hit |-> None]
    ELSE LET buy_points == BuyPoints(resp.bsp_list, cutoff)
         IN  [success |-> 1, fail |-> 0,
              hit |-> IF buy_points # <<>> THEN Some(LatestBuy(buy_points)) ELSE None]

Raised(resp, t) ==
    \/ resp.kind = "raise"
    \/ resp.kind = "bars" /\ resp.last_bar # None /\ ~IsStale(t, resp.last_bar[1])
       /\ resp.late_raise

AfterSymbol_Abort(i, total, raised) ==
    IF raised \/ i = total THEN "finish" ELSE "report"
\* `continue` in every branch: the loop goes on to the next row, if any.
AfterSymbol(i, total, raised) == IF i = total THEN "finish" ELSE "report"

\* ------------------------------------------------------------ the caches
\* datetime.now().strftime("%Y-%m-%d") of a day
DateStr(d) == <<"date", d>>

\* The date_str arguments of the cache functions: None (today) or a date.  The
\* entries are saved under the default key and loaded under any key.
DateArgs == {None} \cup {Some(DateStr(d)) : d \in CacheDays}
SaveDateArgs == {None}

\* if date_str is None: date_str = datetime.now().strftime("%Y-%m-%d")
KeyDate(date_str, t) == IF date_str = None THEN DateStr(Today(t)) ELSE date_str[1]

\* The codes whose analysis is cached, and the engine handle of each.
CacheCodes == {FilterRows(ProviderRows)[1].code}
Chan(code) == [code |-> FullCode(code)]

\* The snapshots that are put into the universe cache: what get_tradable_stocks
\* returns, the empty DataFrame of a failed fetch included.
CacheSnapshots == {GetTradableStocks(p) : p \in ProviderBehaviours}

\* A signal list with nb buy signals followed by ns sell signals, ranked latest
\* first, all of different days.
CacheList(nb, ns) ==
    [i \in 1..(nb + ns) |->
        [is_buy |-> i <= nb, type |-> IF i % 2 = 1 THEN "1" ELSE "2", time |-> Day0 - i]]

\* The signal lists given to save_analysis_cache: short ones, one that fills
\* the descriptor limit, and ones that exceed it in one direction.
CacheBspLists ==
    {CacheList(0, 0), CacheList(1, 1), CacheList(CachePointLimit, 1)}
    \cup {CacheList(CachePointLimit + k, 0) : k \in 1..MaxCacheExtra}
    \cup {CacheList(1, CachePointLimit + k) : k \in 1..MaxCacheExtra}

Digits == {"0", "1", "2", "3", "4", "5", "6", "7", "8", "9"}
IsDigits(cell) == cell # <<>> /\ \A i \in 1..Len(cell) : cell[i] \in Digits

RECURSIVE StripZeros(_)
StripZeros(cell) ==
    IF Len(cell) > 1 /\ cell[1] = "0" THEN StripZeros(SubSeq(cell, 2, Len(cell))) ELSE cell

\* A cell read as a number: its digits without leading zeros, marked "#".
NumberCell(cell) == <<"#">> \o StripZeros(cell)

\* df.to_csv(index=False): a header line with the column names and one line of
\* text cells per row; the empty DataFrame has no columns and no rows.
ToCsv(df) ==
    IF df = <<>> THEN [header |-> <<>>, rows |-> <<>>]
    ELSE [header |-> <<"code", "name">>,
          rows |-> [i \in 1..Len(df) |-> <<df[i].code, df[i].name>>]]

CsvStrColumns_None == {}
\* dtype={'code': str}
CsvStrColumns == {"code"}

\* pd.read_csv: a column named in dtype keeps its text; any other column is
\* read as numbers when every cell of it is a number, as text otherwise.
ReadColumn(file, j) ==
    LET cells == [i \in 1..Len(file.rows) |-> file.rows[i][j]]
    IN  IF file.header[j] \in CsvStrColumns \/ \E i \in 1..Len(cells) : ~IsDigits(cells[i])
        THEN cells
        ELSE [i \in 1..Len(cells) |-> NumberCell(cells[i])]

\* pd.read_csv of a cache file; a file without columns raises (None).
ReadCsv(file) ==
    IF file.header = <<>> THEN None
    ELSE Some([i \in 1..Len(file.rows) |->
                 [code |-> ReadColumn(file, 1)[i], name |-> ReadColumn(file, 2)[i]]])

Take(seq, n) == SubSeq(seq, 1, Min(n, Len(seq)))

KeptPoints_All(points) == points
\* points[:20]
KeptPoints(points) == Take(points, CachePointLimit)

Descriptor(bsp) == [type |-> bsp.type, time |-> TimeStr(bsp.time)]

\* The record save_analysis_cache writes (json.dump keeps strings, numbers and
\* lists as they are, and json.load reads them back as such).
CacheData(code, chan, bsp_list, date) ==
    LET buy_points == SelectSeq(bsp_list, LAMBDA b : b.is_buy)
        sell_points == SelectSeq(bsp_list, LAMBDA b : ~b.is_buy)
        kept_buy == KeptPoints(buy_points)
        kept_sell == KeptPoints(sell_points)
    IN  [code |-> code,
         full_code |-> chan.code,
         cache_date |-> date,
         buy_points |-> [i \in 1..Len(kept_buy) |-> Descriptor(kept_buy[i])],
         sell_points |-> [i \in 1..Len(kept_sell) |-> Descriptor(kept_sell[i])],
         total_buy_points |-> Len(buy_points),
         total_sell_points |-> Len(sell_points)]

StockListFile_Latest(files, date) ==
    IF files[date] # None THEN files[date]
    ELSE LET older == {d \in CacheDays : DateStr(d)[2] < date[2] /\ files[DateStr(d)] # None}
         IN  IF older = {} THEN None
             ELSE files[DateStr(CHOOSE d \in older : \A e \in older : e <= d)]
\* data/stock_list/<date_str>.csv, if it exists
StockListFile(files, date) == files[date]

\* data/analysis/<date_str>/<code>.json, if it exists
AnalysisFile(files, date, code) == files[<<date, code>>]

\* ------------------------------------------- the cache files, block by block
\* The invocations that save one cache key at the same time.
Writers == {1, 2}
CacheScopes == {"stock_list", "analysis"}

\* A cache file as the file system holds it: the blocks written to it.  A
\* block is the text one write of the file object puts at the position of its
\* own descriptor; a payload of n blocks is written by n such writes.
Block(w, i, n) == [writer |-> w, part |-> i, of |-> n]
\* the zero bytes of a gap, where a write lands behind the end of the file
Gap == Block(0, 0, 0)
Payload(w, n) == [i \in 1..n |-> Block(w, i, n)]
IsPayload(blocks) == \E w \in Writers : \E n \in 1..MaxBlocks : blocks = Payload(w, n)

\* open(cache_file, 'w'), also inside df.to_csv: the file is emptied.
Truncate(blocks) == <<>>

\* One write at position pos of the writer's descriptor.
WriteAt(blocks, pos, block) ==
    [i \in 1..(IF Len(blocks) > pos + 1 THEN Len(blocks) ELSE pos + 1) |->
        IF i = pos + 1 THEN block
        ELSE IF i <= Len(blocks) THEN blocks[i]
        ELSE Gap]

\* The text has the shape of one document: it starts with a first block,
\* continues with second, third, ... blocks and ends with a last block.
WellShaped(blocks) ==
    /\ blocks # <<>>
    /\ \A i \in 1..Len(blocks) : blocks[i].part = i
    /\ blocks[Len(blocks)].part = blocks[Len(blocks)].of

\* What load_stock_list_cache can return for the file: pd.read_csv raises on
\* an empty file (None), and reads the lines that are there otherwise; zero
\* bytes make it raise or not.
LoadStockListOutcomes(blocks) ==
    IF blocks = <<>> THEN {None}
    ELSE IF \E i \in 1..Len(blocks) : blocks[i] = Gap THEN {None, Some(blocks)}
    ELSE {Some(blocks)}

\* What load_analysis_cache can return for the file: json.load raises on a
\* text that is not one document (None); a text put together from the blocks
\* of two documents is one document or not, depending on where the blocks end.
LoadAnalysisOutcomes(blocks) ==
    IF IsPayload(blocks) THEN {Some(blocks)}
    ELSE IF WellShaped(blocks) THEN {None, Some(blocks)}
    ELSE {None}

LoadOutcomes(scope, blocks) ==
    IF scope = "stock_list" THEN LoadStockListOutcomes(blocks) ELSE LoadAnalysisOutcomes(blocks)

\* ------------------------------------------------------ save_scan_results
ArchiveCodes == {<<"6", "0", "0", "0", "0", "0">>, <<"0", "0", "0", "0", "0", "1">>}

\* What the chart driver does for the handle of a hit: it works, its
\* constructor raises, drawing the chart raises; or the hit has no handle.
DriverBehaviours == {"ok", "ctor_raise", "plot_raise", "no_chan"}

\* A hit as scan_stocks builds it, with a handle for which the driver does d.
Hit(code, d) ==
    [code |-> code, name |-> <<"N">> \o code, bsp_type |-> "1", bsp_time |-> TimeStr(Day0),
     chan |-> IF d = "no_chan" THEN None
              ELSE Some([code |-> FullCode(code), lv_list |-> <<"DAY">>, driver |-> d])]

\* The results lists handed to save_scan_results: not empty (the button is
\* shown only then), one hit per code.
ArchiveResults ==
    {<<Hit(c, d)>> : c \in ArchiveCodes, d \in DriverBehaviours}
    \cup {res \in {<<Hit(c[1], d[1]), Hit(c[2], d[2])>> :
                      c \in ArchiveCodes \X ArchiveCodes,
                      d \in DriverBehaviours \X DriverBehaviours} :
            res[1].code # res[2].code}

ArchiveDates == {DateStr(d) : d \in CacheDays}

\* f"{code}_{level_name}.html"
ChartName(code, level_name) == <<code, level_name>>
\* The codes a hit can have: those above and those of the provider's listing.
ChartCodes ==
    ArchiveCodes \cup {FilterRows(ProviderRows)[i].code : i \in 1..Len(FilterRows(ProviderRows))}
ChartNames == {ChartName(c, "DAY") : c \in ChartCodes}

\* CPyEchartsPlotDriver(chan) raises.
DriverRaises(chan) == chan[1].driver = "ctor_raise"

\* The first loop: the driver is constructed for every hit with a handle and
\* levels, outside any per-hit try.
TableRaises(res) ==
    \E i \in 1..Len(res) :
        res[i].chan # None /\ res[i].chan[1].lv_list # <<>> /\ DriverRaises(res[i].chan)

TableRows_Reversed(res) ==
    [i \in 1..Len(res) |->
        [Code |-> res[Len(res) + 1 - i].code, Name |-> res[Len(res) + 1 - i].name,
         Level |-> "DAY", BuyPointType |-> res[Len(res) + 1 - i].bsp_type,
         BuyPointTime |-> res[Len(res) + 1 - i].bsp_time]]
\* The rows of scan_results.csv.
TableRows(res) ==
    [i \in 1..Len(res) |->
        [Code |-> res[i].code, Name |-> res[i].name, Level |-> "DAY",
         BuyPointType |-> res[i].bsp_type, BuyPointTime |-> res[i].bsp_time]]

\* The record of scan_stats.json.
StatsRecord(date_str, res, stats) ==
    [scan_date |-> date_str, total_found |-> Len(res), success_count |-> stats.success,
     fail_count |-> stats.fail, found_count |-> stats.found]

\* charts_dir.mkdir(exist_ok=True): the files of the directory stay.
MkdirExistOk(charts) == charts

\* One pass of the chart loop's try block for hit r, run being the number of
\* the call (what tells the chart written by this call from an earlier one).
ChartStep(acc, r, run) ==
    IF r.chan = None
    THEN [acc EXCEPT !.errors = Append(@, [code |-> r.code, error |-> "No CChan object"])]
    ELSE IF r.chan[1].driver \in {"ctor_raise", "plot_raise"}
    THEN [acc EXCEPT !.errors = Append(@, [code |-> r.code, error |-> r.chan[1].driver])]
    ELSE [acc EXCEPT !.charts[ChartName(r.code, r.chan[1].lv_list[1])] =
                            Some([code |-> r.chan[1].code, run |-> run]),
                     !.count = @ + 1]

RECURSIVE ChartLoop(_, _, _, _)
ChartLoop(acc, res, i, run) ==
    IF i > Len(res) THEN acc
    ELSE ChartLoop(ChartStep(acc, res[i], run), res, i + 1, run)

\* The stats the handler passes: st.session_state['scan_stats'] of the scan
\* that produced the results.
ArchiveStats(res) == [success |-> Len(res), fail |-> 0, found |-> Len(res)]

\* The write of save_scan_results at which the file system raises, if any:
\* making Result/<date>, writing scan_results.csv, writing scan_stats.json,
\* making charts/, writing chart_errors.log.
IoFaults == {"none", "dir", "csv", "stats", "mkdir", "log"}

\* A file whose write raised half-way: a table without rows, a record cut short.
DamagedTable == Some(<<>>)
Damaged == Some([damaged |-> TRUE])

\* The files of one date's archive.
Archive(table, stats, charts, log) ==
    [table |-> table, stats |-> stats, charts |-> charts, log |-> log]

ErrorLog(date_str, res, done) ==
    Some([date |-> date_str, total |-> Len(res), saved |-> done.count, errors |-> done.errors])

\* No chart failed: chart_errors.log is not opened, what is there stays.
KeepLog(log) == log

\* The table is written before the statistics: when the statistics' write
\* raises, the new table is already in place. keep: the write raised before
\* the old file was truncated.
TableFirst(old, t, s, keep) ==
    Archive(t, IF keep THEN old.stats ELSE Damaged, old.charts, old.log)

\* One call of save_scan_results on a date whose archive is old: the files
\* afterwards and the value returned (None: the outer except was taken).
SaveRun(old, res, stats, date_str, run, io, keep) ==
    LET t == Some(TableRows(res))
        s == Some(StatsRecord(date_str, res, stats))
        done == ChartLoop([charts |-> MkdirExistOk(old.charts), count |-> 0,
                           errors |-> <<>>], res, 1, run)
        failed(files) == [files |-> files, ret |-> None]
    IN  IF io = "dir" \/ TableRaises(res) THEN failed(old)
        ELSE IF io = "csv"
        THEN failed(Archive(IF keep THEN old.table ELSE DamagedTable, old.stats, old.charts,
                            old.log))
        ELSE IF io = "stats" THEN failed(TableFirst(old, t, s, keep))
        ELSE IF io = "mkdir" THEN failed(Archive(t, s, old.charts, old.log))
        ELSE IF io = "log" /\ done.errors # <<>>
        THEN failed(Archive(t, s, done.charts, IF keep THEN old.log ELSE Damaged))
        ELSE [files |-> Archive(t, s, done.charts,
                                IF done.errors # <<>> THEN ErrorLog(date_str, res, done)
                                ELSE KeepLog(old.log)),
              ret |-> Some(date_str)]

\* date_str = datetime.now().strftime("%Y-%m-%d"), at the time of the call.
DateNow(t, log) == DateStr(Today(t))

\* The entries of st.session_state['scan_results'] as save_scan_results sees
\* them, drv[i] being what the chart driver does for the handle of entry i.
SessionHits(res, drv) ==
    [i \in 1..Len(res) |->
        [code |-> res[i].code, name |-> res[i].name, bsp_type |-> res[i].bsp_type,
         bsp_time |-> res[i].bsp_time,
         chan |-> Some([code |-> res[i].chan, lv_list |-> <<"DAY">>, driver |-> drv[i]])]]

\* ---------------------------------------------------------- App/config.py
BaoStockEnum == "DATA_SRC.BAO_STOCK"
BaoStockText == "BAO_STOCK"
QmtText == "custom:QMTAPI.CQMTAPI"

\* load_config()["data_source"]: the default when config.json is absent or
\* cannot be parsed (an empty file, while save_config is writing it).
LoadConfig(file) ==
    IF file = None THEN BaoStockText
    ELSE IF file[1] = "" THEN BaoStockText
    ELSE file[1]

\* get_data_source(): the session's value as text, else the file's.
GetDataSource(session, file) ==
    IF session # None
    THEN IF session[1] = BaoStockEnum THEN BaoStockText ELSE session[1]
    ELSE LoadConfig(file)

\* get_data_source_for_chan()
GetDataSourceForChan(session, file) ==
    IF session # None
    THEN IF session[1] = BaoStockText THEN BaoStockEnum ELSE session[1]
    ELSE IF GetDataSource(session, file) = BaoStockText THEN BaoStockEnum
         ELSE GetDataSource(session, file)

\* What set_data_source(data_source) puts into config.json and into the
\* session of its caller.
SettingsChoices == {"BAO_STOCK", "QMTAPI"}
ConfigValue(data_source) == IF data_source = "QMTAPI" THEN QmtText ELSE BaoStockText
SessionValue(data_source) == IF data_source = "QMTAPI" THEN QmtText ELSE BaoStockEnum

\* ------------------------------------------------------ DataAPI/MySqlAPI.py
\* A pymysql connection object, open or closed.
OpenConnection == Some([closed |-> FALSE])
ClosedConnection == Some([closed |-> TRUE])

DbOps == {"get_all_stocks", "get_kl_data"}

\* connect_to_db: pymysql.connect succeeds and the connection is stored, or
\* it raises and db_connection stays as it was.
ConnectToDb(conn, server_up) ==
    IF server_up THEN [conn |-> OpenConnection, raised |-> FALSE]
    ELSE [conn |-> conn, raised |-> TRUE]

\* cursor.execute: raises on a closed connection, and when the server fails.
Execute(conn, query_ok) == [raised |-> conn = ClosedConnection \/ ~query_ok]

\* disconnect_from_db: if self.db_connection: self.db_connection.close().  A
\* connection object is true, open or closed; close() of a closed connection
\* raises.  The attribute keeps the connection object.
DisconnectFromDb(conn) ==
    IF conn = None THEN [conn |-> conn, raised |-> FALSE]
    ELSE IF conn = ClosedConnection THEN [conn |-> conn, raised |-> TRUE]
    ELSE [conn |-> ClosedConnection, raised |-> FALSE]

\* get_all_stocks, and get_kl_data consumed to its end: connect if
\* db_connection is None, execute the query in the try block, disconnect in
\* the finally block.
DbCallRun(conn, op, server_up, query_ok) ==
    LET first == IF conn = None THEN ConnectToDb(conn, server_up)
                 ELSE [conn |-> conn, raised |-> FALSE]
    IN  IF first.raised
        THEN [conn |-> first.conn,
              call |-> [op |-> op, connected |-> FALSE, at_query |-> None,
                        outcome |-> "connect_raise", after |-> first.conn]]
        ELSE LET query == Execute(first.conn, query_ok)
                 last == DisconnectFromDb(first.conn)
             IN  [conn |-> last.conn,
                  call |-> [op |-> op, connected |-> conn = None,
                            at_query |-> Some(first.conn),
                            outcome |-> IF last.raised THEN "close_raise"
                                        ELSE IF query.raised THEN "query_raise"
                                        ELSE "rows",
                            after |-> last.conn]]

\* --------------------------------------------------------------- actions
Init ==
    /\ now \in {Midnight(Day0) + k : k \in 0..(TicksPerDay - 1)}
    /\ pc = "idle"
    /\ login_log = <<>>
    /\ stock_list = <<>>
    /\ recent_days = 0
    /\ cutoff_date = 0
    /\ idx = 0
    /\ success_count = 0
    /\ fail_count = 0
    /\ results = <<>>
    /\ progress = 0
    /\ status_text = None
    /\ engine_calls = <<>>
    /\ source_calls = <<>>
    /\ last_resp = None
    /\ scan_results = None
    /\ scan_stats = None
    /\ stock_list_files = [date \in {DateStr(d) : d \in CacheDays} |-> None]
    /\ analysis_files = [key \in {DateStr(d) : d \in CacheDays} \X CacheCodes |-> None]
    /\ cache_put = None
    /\ cache_get = None
    /\ fetch_call = None
    /\ fetch_run = None
    /\ fetch_report = None
    /\ single_chan = None
    /\ single_code = None
    /\ single_call = None
    /\ code_call = None
    /\ archive_table = [date \in ArchiveDates |-> None]
    /\ archive_stats = [date \in ArchiveDates |-> None]
    /\ archive_charts = [date \in ArchiveDates |-> [name \in ChartNames |-> None]]
    /\ archive_log = [date \in ArchiveDates |-> None]
    /\ archive_call = None
    /\ archive_runs = 0
    /\ config_file = None
    /\ app_data_source = None
    /\ settings_write = None
    /\ race_scope = None
    /\ race_file = <<>>
    /\ race_writers = [w \in Writers |-> [pc |-> "idle", pos |-> 0, len |-> 0]]
    /\ race_get = None
    /\ db_connection = None
    /\ db_log = <<>>

\* The clock advances.
Tick ==
    /\ now < Midnight(Day0) + TicksPerDay - 1 + MaxTicks
    /\ now' = now + 1
    /\ UNCHANGED <<page_vars, pc, login_log, stock_list, scan_vars, session_vars, cache_vars>>

\* "Start Scan" is pressed: the universe is fetched from the provider; with an
\* empty universe the handler reports an error and ends, otherwise scan_stocks
\* starts.
StartScan ==
    /\ pc = "idle"
    /\ Len(login_log) < MaxFetches
    /\ \E p \in ProviderBehaviours, days \in 1..MaxRecentDays :
        LET df == GetTradableStocks(p)
        IN  /\ login_log' = Append(login_log, [day |-> Today(now), fetched |-> df # <<>>])
            /\ stock_list' = df
            /\ IF df = <<>>
               THEN /\ pc' = "idle"
                    /\ UNCHANGED scan_vars
               ELSE /\ pc' = "report"
                    /\ recent_days' = days
                    /\ cutoff_date' = CutoffDate(now, days)
                    /\ idx' = 1
                    /\ success_count' = 0
                    /\ fail_count' = 0
                    /\ results' = <<>>
                    /\ progress' = 0
                    /\ status_text' = None
                    /\ engine_calls' = <<>>
                    /\ source_calls' = <<>>
                    /\ last_resp' = None
    /\ UNCHANGED <<page_vars, now, session_vars, cache_vars>>

ProgressShown_Before(i) == i - 1
\* (idx + 1) of the 0-based row label: the 1-based position of the row.
ProgressShown(i) == i

AddResult_Front(res, entry) == <<entry>> \o res
\* results.append
AddResult(res, entry) == Append(res, entry)

\* Top of a loop iteration: the progress bar is updated for the row.
ScanReport ==
    /\ pc = "report"
    /\ progress' = ProgressShown(idx)
    /\ status_text' = Some([count |-> ProgressShown(idx), total |-> Len(stock_list),
                            code |-> stock_list[idx].code, name |-> stock_list[idx].name])
    /\ pc' = "analyze"
    /\ last_resp' = None
    /\ UNCHANGED <<page_vars, now, login_log, stock_list, recent_days, cutoff_date, idx, success_count,
                   fail_count, results, engine_calls, source_calls, session_vars, cache_vars>>

\* The try block of a loop iteration, the engine doing resp: the engine is
\* invoked for the row and the row is classified.
ScanSymbolWith(resp) ==
    LET row == stock_list[idx]
        out == SymbolOutcome(resp, now, cutoff_date)
    IN  /\ engine_calls' = Append(engine_calls, FullCode(row.code))
        /\ source_calls' = Append(source_calls,
                                  GetDataSourceForChan(app_data_source, config_file))
        /\ last_resp' = Some(resp)
        /\ success_count' = success_count + out.success
        /\ fail_count' = fail_count + out.fail
        /\ results' = IF out.hit = None THEN results
                      ELSE AddResult(results,
                                     [code |-> row.code, name |-> row.name,
                                      bsp_type |-> out.hit[1].type,
                                      bsp_time |-> TimeStr(out.hit[1].time),
                                      chan |-> FullCode(row.code)])
        /\ pc' = AfterSymbol(idx, Len(stock_list), Raised(resp, now))
        /\ idx' = idx + 1
        /\ UNCHANGED <<page_vars, now, login_log, stock_list, recent_days, cutoff_date, progress,
                       status_text,
                       session_vars, cache_vars>>

\* A loop iteration with whatever the engine does for the row: no usable
\* result, or a result with bars dated up to today.
ScanSymbol ==
    /\ pc = "analyze"
    /\ \/ \E resp \in NoBarResponses : ScanSymbolWith(resp)
       \/ \E d \in LastBarDays :
            d <= Today(now) /\ \E resp \in BarResponses[d] : ScanSymbolWith(resp)

\* scan_stocks returns and the handler stores the outcome in the session; the
\* locals of the handler and of scan_stocks are gone.
ScanFinish ==
    /\ pc = "finish"
    /\ scan_results' = Some(results)
    /\ scan_stats' = Some([success |-> success_count, fail |-> fail_count,
                           found |-> Len(results)])
    /\ pc' = "idle"
    /\ stock_list' = <<>>
    /\ recent_days' = 0
    /\ cutoff_date' = 0
    /\ idx' = 0
    /\ success_count' = 0
    /\ fail_count' = 0
    /\ results' = <<>>
    /\ progress' = 0
    /\ status_text' = None
    /\ engine_calls' = <<>>
    /\ source_calls' = <<>>
    /\ last_resp' = None
    /\ UNCHANGED <<page_vars, now, login_log, cache_vars>>

\* "Clear Results" is pressed.
ClearResults ==
    /\ pc = "idle"
    /\ scan_results # None
    /\ scan_results' = None
    /\ scan_stats' = None
    /\ UNCHANGED <<page_vars, now, pc, login_log, stock_list, scan_vars, cache_vars>>

\* The clock advances while the scan runs.
ScanTick == pc # "idle" /\ Tick

\* "Start Scan" is pressed for the first time in the session.
FirstStartScan == login_log = <<>> /\ StartScan

\* The first Start Scan press of a session, followed to its end.
Next == FirstStartScan \/ ScanReport \/ ScanSymbol \/ ScanFinish \/ ClearResults \/ ScanTick

Spec == Init /\ [][Next]_vars

\* A session in which Start Scan is pressed again and again, over days.
NextSession == StartScan \/ ScanReport \/ ScanSymbol \/ ScanFinish \/ ClearResults \/ Tick

SpecSession == Init /\ [][NextSession]_vars

\* The engine gives no usable result for the row.
ScanSymbolNoBars == pc = "analyze" /\ \E resp \in NoBarResponses : ScanSymbolWith(resp)

\* "Save Settings" is pressed in the scanning session, while it is idle:
\* set_data_source(selected_source).
SaveSettings ==
    /\ pc = "idle"
    /\ settings_write = None
    /\ \E d \in SettingsChoices :
        /\ config_file' = Some(ConfigValue(d))
        /\ app_data_source' = Some(SessionValue(d))
    /\ UNCHANGED <<now, pc, login_log, stock_list, scan_vars, session_vars, cache_vars, race_vars, db_vars,
                   universe_vars, single_vars, code_call, archive_vars, settings_write>>

\* "Save Settings" is pressed in another session: save_config opens
\* config.json for writing, which empties it ...
SettingsOpenElsewhere ==
    /\ settings_write = None
    /\ \E d \in SettingsChoices :
        /\ settings_write' = Some(ConfigValue(d))
        /\ config_file' = Some("")
    /\ UNCHANGED <<now, pc, login_log, stock_list, scan_vars, session_vars, cache_vars, race_vars, db_vars,
                   universe_vars, single_vars, code_call, archive_vars, app_data_source>>

\* ... and json.dump writes the configuration.
SettingsDumpElsewhere ==
    /\ settings_write # None
    /\ config_file' = settings_write
    /\ settings_write' = None
    /\ UNCHANGED <<now, pc, login_log, stock_list, scan_vars, session_vars, cache_vars, race_vars, db_vars,
                   universe_vars, single_vars, code_call, archive_vars, app_data_source>>

\* The first scan of a session over symbols without bars, while settings are
\* saved in this session (between scans) and in another one (at any time).
NextConfig ==
    \/ FirstStartScan
    \/ ScanReport
    \/ ScanSymbolNoBars
    \/ ScanFinish
    \/ SaveSettings
    \/ SettingsOpenElsewhere
    \/ SettingsDumpElsewhere

SpecConfig == Init /\ [][NextConfig]_vars

\* save_stock_list_cache(df, date_str)
SaveStockListCache ==
    /\ pc = "idle"
    /\ \E df \in CacheSnapshots, date_str \in SaveDateArgs :
        LET date == KeyDate(date_str, now)
        IN  /\ stock_list_files' = [stock_list_files EXCEPT ![date] = Some(ToCsv(df))]
            /\ cache_put' = Some([scope |-> "stock_list", date |-> date, code |-> <<>>,
                                  df |-> df, bsp_list |-> <<>>, day |-> Today(now),
                                  written |-> TRUE])
    /\ cache_get' = None
    /\ UNCHANGED <<page_vars, now, pc, login_log, stock_list, scan_vars, session_vars, analysis_files>>

\* load_stock_list_cache(date_str)
LoadStockListCache ==
    /\ pc = "idle"
    /\ \E date_str \in DateArgs :
        LET date == KeyDate(date_str, now)
            file == StockListFile(stock_list_files, date)
        IN  cache_get' = Some([scope |-> "stock_list", date_str |-> date_str, date |-> date,
                               code |-> <<>>, day |-> Today(now),
                               ret |-> IF file = None THEN None ELSE ReadCsv(file[1])])
    /\ UNCHANGED <<page_vars, now, pc, login_log, stock_list, scan_vars, session_vars, stock_list_files,
                   analysis_files, cache_put>>

\* save_analysis_cache(code, chan, bsp_list, date_str); when preparing the
\* record raises (a signal's type2str() or klu.time), nothing is written.
SaveAnalysisCache ==
    /\ pc = "idle"
    /\ \E code \in CacheCodes, bsp_list \in CacheBspLists, date_str \in SaveDateArgs,
          raises \in BOOLEAN :
        LET date == KeyDate(date_str, now)
        IN  /\ analysis_files' =
                  IF raises THEN analysis_files
                  ELSE [analysis_files EXCEPT ![<<date, code>>] =
                            Some(CacheData(code, Chan(code), bsp_list, date))]
            /\ cache_put' = Some([scope |-> "analysis", date |-> date, code |-> code,
                                  df |-> <<>>, bsp_list |-> bsp_list, day |-> Today(now),
                                  written |-> ~raises])
    /\ cache_get' = None
    /\ UNCHANGED <<page_vars, now, pc, login_log, stock_list, scan_vars, session_vars, stock_list_files>>

\* load_analysis_cache(code, date_str)
LoadAnalysisCache ==
    /\ pc = "idle"
    /\ \E code \in CacheCodes, date_str \in DateArgs :
        LET date == KeyDate(date_str, now)
            file == AnalysisFile(analysis_files, date, code)
        IN  cache_get' = Some([scope |-> "analysis", date_str |-> date_str, date |-> date,
                               code |-> code, day |-> Today(now),
                               ret |-> IF file = None THEN None
                                       ELSE IF file[1].cache_date = date THEN file
                                       ELSE None])
    /\ UNCHANGED <<page_vars, now, pc, login_log, stock_list, scan_vars, session_vars, stock_list_files,
                   analysis_files, cache_put>>

\* The cache calls of a session, over days.
NextCache ==
    \/ SaveStockListCache
    \/ LoadStockListCache
    \/ SaveAnalysisCache
    \/ LoadAnalysisCache
    \/ Tick

SpecCache == Init /\ [][NextCache]_vars

\* --------------------------------------------- concurrent cache calls
\* An invocation enters save_stock_list_cache or save_analysis_cache for the
\* key and opens the cache file for writing.
CacheWriterOpen ==
    /\ \E w \in Writers : \E n \in 1..MaxBlocks : \E scope \in CacheScopes :
        /\ race_writers[w].pc = "idle"
        /\ race_scope \in {None, Some(scope)}
        /\ race_scope' = Some(scope)
        /\ race_file' = Truncate(race_file)
        /\ race_writers' = [race_writers EXCEPT ![w] = [pc |-> "writing", pos |-> 0, len |-> n]]
    /\ UNCHANGED <<now, pc, login_log, stock_list, scan_vars, session_vars, cache_vars,
                   universe_vars, single_vars, code_call, archive_vars, config_vars, race_get,
                   db_vars>>

\* to_csv or json.dump writes the next block of the invocation's payload.
CacheWriterWrite ==
    /\ \E w \in Writers :
        LET wr == race_writers[w]
        IN  /\ wr.pc = "writing"
            /\ wr.pos < wr.len
            /\ race_file' = WriteAt(race_file, wr.pos, Block(w, wr.pos + 1, wr.len))
            /\ race_writers' = [race_writers EXCEPT ![w].pos = wr.pos + 1]
    /\ UNCHANGED <<now, pc, login_log, stock_list, scan_vars, session_vars, cache_vars,
                   universe_vars, single_vars, code_call, archive_vars, config_vars, race_scope,
                   race_get, db_vars>>

\* The file is closed and the save function returns.
CacheWriterClose ==
    /\ \E w \in Writers :
        /\ race_writers[w].pc = "writing"
        /\ race_writers[w].pos = race_writers[w].len
        /\ race_writers' = [race_writers EXCEPT ![w].pc = "done"]
    /\ UNCHANGED <<now, pc, login_log, stock_list, scan_vars, session_vars, cache_vars,
                   universe_vars, single_vars, code_call, archive_vars, config_vars, race_scope,
                   race_file, race_get, db_vars>>

\* A third invocation loads the key: load_stock_list_cache or
\* load_analysis_cache finds the file and reads what is in it.
CacheReaderGet ==
    /\ race_scope # None
    /\ \E w \in Writers : race_writers[w].pc # "idle"
    /\ \E ret \in LoadOutcomes(race_scope[1], race_file) :
        race_get' = Some([scope |-> race_scope[1], file |-> race_file, ret |-> ret,
                          writing |-> {w \in Writers : race_writers[w].pc = "writing"}])
    /\ UNCHANGED <<now, pc, login_log, stock_list, scan_vars, session_vars, cache_vars,
                   universe_vars, single_vars, code_call, archive_vars, config_vars, race_scope,
                   race_file, race_writers, db_vars>>

NextRace == CacheWriterOpen \/ CacheWriterWrite \/ CacheWriterClose \/ CacheReaderGet

SpecRace == Init /\ [][NextRace]_vars

\* ------------------------------------------------------- MySQL_API calls
\* data_src = MySQL_API(...): a new instance, without a connection.
NewMySqlApi ==
    /\ db_log # <<>>
    /\ db_connection' = None
    /\ db_log' = <<>>
    /\ UNCHANGED <<now, pc, login_log, stock_list, scan_vars, session_vars, cache_vars,
                   universe_vars, single_vars, code_call, archive_vars, config_vars, race_vars>>

\* One call of get_all_stocks or get_kl_data on the instance.
MySqlCall ==
    /\ Len(db_log) < MaxDbCalls
    /\ \E op \in DbOps : \E server_up \in BOOLEAN : \E query_ok \in BOOLEAN :
        LET run == DbCallRun(db_connection, op, server_up, query_ok)
        IN  /\ db_connection' = run.conn
            /\ db_log' = Append(db_log, run.call)
    /\ UNCHANGED <<now, pc, login_log, stock_list, scan_vars, session_vars, cache_vars,
                   universe_vars, single_vars, code_call, archive_vars, config_vars, race_vars>>

NextDb == NewMySqlApi \/ MySqlCall

SpecDb == Init /\ [][NextDb]_vars

\* ------------------------------------------------------ the universe fetch
\* What the Start Scan handler reports once get_tradable_stocks has returned.
HandlerReport(df) == IF df = <<>> THEN "error" ELSE "info"

\* "Start Scan" is pressed and the handler fetches the universe, against a
\* provider that may do anything; the page shows the outcome.
UniverseFetch ==
    /\ fetch_call = None
    /\ \E b \in ListingBehaviours :
        LET run == TradableStocksRun(b)
        IN  /\ fetch_call' = Some(b)
            /\ fetch_run' = Some(run)
            /\ fetch_report' = Some(HandlerReport(run.df))
    /\ UNCHANGED <<now, pc, login_log, stock_list, scan_vars, session_vars, cache_vars, race_vars, db_vars, config_vars, archive_vars,
                   single_vars, code_call>>

\* The page is run again and the messages of the fetch are gone.
UniverseRerun ==
    /\ fetch_call # None
    /\ fetch_call' = None
    /\ fetch_run' = None
    /\ fetch_report' = None
    /\ UNCHANGED <<now, pc, login_log, stock_list, scan_vars, session_vars, cache_vars, race_vars, db_vars, config_vars, archive_vars,
                   single_vars, code_call>>

NextUniverse == UniverseFetch \/ UniverseRerun

SpecUniverse == Init /\ [][NextUniverse]_vars

\* ------------------------------------------------------------ the archive
\* save_scan_results(res, stats) is called, the file system raising at one of
\* the writes in faults ("none": at none).
SaveCall(res, stats, faults) ==
    \E io \in faults :
    \E keep \in IF io \in {"csv", "stats", "log"} THEN BOOLEAN ELSE {TRUE} :
        LET date_str == DateNow(now, login_log)
            run == archive_runs + 1
            old == Archive(archive_table[date_str], archive_stats[date_str],
                           archive_charts[date_str], archive_log[date_str])
            new == SaveRun(old, res, stats, date_str, run, io, keep)
        IN  /\ archive_runs' = run
            /\ archive_table' = [archive_table EXCEPT ![date_str] = new.files.table]
            /\ archive_stats' = [archive_stats EXCEPT ![date_str] = new.files.stats]
            /\ archive_charts' = [archive_charts EXCEPT ![date_str] = new.files.charts]
            /\ archive_log' = [archive_log EXCEPT ![date_str] = new.files.log]
            /\ archive_call' = Some([results |-> res, stats |-> stats, date |-> date_str,
                                     run |-> run, io |-> io, ret |-> new.ret])

\* "Save Results" is pressed on a page that shows some results.
SaveScanResults ==
    /\ pc = "idle"
    /\ archive_runs < MaxArchives
    /\ \E res \in ArchiveResults : SaveCall(res, ArchiveStats(res), {"none"})
    /\ UNCHANGED <<now, pc, login_log, stock_list, scan_vars, session_vars, cache_vars, race_vars, db_vars, config_vars,
                   universe_vars, single_vars, code_call>>

NextArchive == SaveScanResults \/ Tick

SpecArchive == Init /\ [][NextArchive]_vars

\* The results shown when the file system may raise: one hit, or two hits
\* whose charts can be drawn.
FaultyDiskResults ==
    {r \in ArchiveResults :
        Len(r) = 1 \/ \A i \in 1..Len(r) : r[i].chan # None /\ r[i].chan[1].driver = "ok"}

\* "Save Results" is pressed on a file system that may raise.
SaveOnFaultyDisk ==
    /\ pc = "idle"
    /\ archive_runs < MaxArchives
    /\ \E res \in FaultyDiskResults : SaveCall(res, ArchiveStats(res), IoFaults)
    /\ UNCHANGED <<now, pc, login_log, stock_list, scan_vars, session_vars, cache_vars, race_vars, db_vars, config_vars,
                   universe_vars, single_vars, code_call>>

NextArchiveIo == SaveOnFaultyDisk \/ Tick

SpecArchiveIo == Init /\ [][NextArchiveIo]_vars

\* "Save Results" is pressed after a scan: the results and the statistics of
\* the session are archived.
SaveResults ==
    /\ pc = "idle"
    /\ scan_results # None
    /\ scan_results[1] # <<>>
    /\ archive_runs < MaxArchives
    /\ \E drv \in [1..Len(scan_results[1]) -> {"ok", "ctor_raise", "plot_raise"}] :
            SaveCall(SessionHits(scan_results[1], drv), scan_stats[1], {"none"})
    /\ UNCHANGED <<now, pc, login_log, stock_list, scan_vars, session_vars, cache_vars, race_vars, db_vars, config_vars,
                   universe_vars, single_vars, code_call>>

\* The clock advances while the page is idle.
IdleTick == pc = "idle" /\ Tick

\* "Save Results" is pressed for the first time in the session.
FirstSaveResults == archive_runs = 0 /\ SaveResults

\* The first scan of a session, run within one tick of the clock, and the
\* first Save Results press after it, the same day or later.
NextScanArchive ==
    FirstStartScan \/ ScanReport \/ ScanSymbol \/ ScanFinish \/ IdleTick \/ FirstSaveResults

SpecScanArchive == Init /\ [][NextScanArchive]_vars

\* ------------------------------------------------- single stock analysis
AnalyzeCode_No688(code) ==
    IF StartsWith(code, SH) \/ StartsWith(code, SZ) THEN code
    ELSE IF \E p \in ShPrefixes \ {<<"6", "8", "8">>} : StartsWith(code, p) THEN SH \o code
    ELSE SZ \o code
\* analyze_stock: the code handed to the engine.
AnalyzeCode(code) ==
    IF ~(StartsWith(code, SH) \/ StartsWith(code, SZ))
    THEN IF \E p \in {<<"6", "0", "0">>, <<"6", "0", "1">>, <<"6", "0", "3">>,
                       <<"6", "0", "5">>, <<"6", "8", "8">>} : StartsWith(code, p)
         THEN SH \o code
         ELSE SZ \o code
    ELSE code

\* format_code of the prompt page.
FormatCode(code) ==
    IF StartsWith(code, SH) \/ StartsWith(code, SZ) THEN code
    ELSE IF \E p \in {<<"6", "0", "0">>, <<"6", "0", "1">>, <<"6", "0", "3">>,
                       <<"6", "0", "5">>, <<"6", "8", "8">>} : StartsWith(code, p)
         THEN SH \o code
         ELSE SZ \o code

\* What the engine side does during analyze_stock: the data source lookup
\* raises, the CChan constructor raises, or a handle is returned.
SingleEngine == {"source_raise", "chan_raise", "chan"}

\* analyze_stock: the handle, or None on any exception.
AnalyzeStock(code, engine) ==
    IF engine = "chan" THEN Some([code |-> AnalyzeCode(code)]) ELSE None

\* What the user may type into the Stock Code field.
SingleCodes ==
    {<<>>,
     <<"6", "0", "0", "0", "0", "0">>,
     <<"0", "0", "0", "0", "0", "1">>,
     <<"6", "8", "8", "0", "0", "1">>,
     <<"s", "h", ".", "6", "0", "0">>,
     <<"6", "0", "0", "0", "0">>}

SessionAfterAnalysis_Always(chan, stock_code, old) ==
    [single_chan |-> chan, single_code |-> Some(stock_code)]
\* if chan: the handle and the code are stored; else the session is left alone.
SessionAfterAnalysis(chan, stock_code, old) ==
    IF chan # None THEN [single_chan |-> chan, single_code |-> Some(stock_code)]
    ELSE old

\* "Start Analysis" is pressed.
StartAnalysis ==
    /\ pc = "idle"
    /\ \E stock_code \in SingleCodes, engine \in SingleEngine :
        IF stock_code = <<>> \/ Len(stock_code) # 6
        THEN /\ engine = "chan"
             /\ single_call' = Some([stock_code |-> stock_code, engine |-> "none",
                                     ret |-> None, msg |-> "warning"])
             /\ UNCHANGED <<single_chan, single_code>>
        ELSE LET chan == AnalyzeStock(stock_code, engine)
                 after == SessionAfterAnalysis(chan, stock_code,
                              [single_chan |-> single_chan, single_code |-> single_code])
             IN  /\ single_call' = Some([stock_code |-> stock_code, engine |-> engine,
                                         ret |-> chan,
                                         msg |-> IF chan # None THEN "success" ELSE "error"])
                 /\ single_chan' = after.single_chan
                 /\ single_code' = after.single_code
    /\ UNCHANGED <<now, pc, login_log, stock_list, scan_vars, session_vars, cache_vars, race_vars, db_vars, config_vars, archive_vars,
                   universe_vars, code_call>>

\* The user analyses single stocks in a session without a scan ...
SingleAnalysis == login_log = <<>> /\ StartAnalysis

\* ... or scans in a session without a single stock analysis.
ScanOnly == single_call = None /\ FirstStartScan

NextSingle ==
    SingleAnalysis \/ ScanOnly \/ ScanReport \/ ScanSymbol \/ ScanFinish \/ ClearResults \/ ScanTick

SpecSingle == Init /\ [][NextSingle]_vars

\* ---------------------------------------------------- code normalisation
CodeDigits == {"0", "1", "3", "5", "6", "8"}

\* Codes: a bare code or one with an exchange tag, with any three leading
\* digits, three or six digits long.
CodeInputs ==
    {tag \o pre \o suf :
        tag \in {<<>>, SH, SZ, BJ},
        pre \in [1..3 -> CodeDigits],
        suf \in {<<>>, <<"0", "0", "1">>}}

\* Each of the three normalisations is applied to a code, and the one of
\* scan_stocks to its own output.
NormaliseCode ==
    /\ code_call = None
    /\ \E code \in CodeInputs :
        code_call' = Some([code |-> code,
                           scan |-> FullCode(code),
                           analyze |-> AnalyzeCode(code),
                           format |-> FormatCode(code),
                           scan_twice |-> FullCode(FullCode(code)),
                           analyze_twice |-> AnalyzeCode(AnalyzeCode(code)),
                           format_twice |-> FormatCode(FormatCode(code))])
    /\ UNCHANGED <<now, pc, login_log, stock_list, scan_vars, session_vars, cache_vars, race_vars, db_vars, config_vars, archive_vars,
                   universe_vars, single_vars>>

\* The outcome is dropped.
CodeForget ==
    /\ code_call # None
    /\ code_call' = None
    /\ UNCHANGED <<now, pc, login_log, stock_list, scan_vars, session_vars, cache_vars, race_vars, db_vars, config_vars, archive_vars,
                   universe_vars, single_vars>>

NextCode == NormaliseCode \/ CodeForget

SpecCode == Init /\ [][NextCode]_vars

\* ------------------------------------------------- scan_stocks: properties
\* A step of the loop's try block, and the engine response it handled.
AnalyzeStep == pc = "analyze" /\ pc' # "analyze"

\* The state right after a symbol was analysed, with that symbol's row.
Analysed == pc \in {"report", "finish"} /\ last_resp # None
AnalysedRow == stock_list[idx - 1]

\* The engine gave a result with bars that is fresh by the calendar and nothing raised.
Succeeded(resp, t) ==
    /\ resp.kind = "bars"
    /\ resp.last_bar # None
    /\ Today(t) - resp.last_bar[1] <= StaleDays
    /\ ~resp.late_raise

\* The positions of the entry signals of a list that pass the scan's recency filter.
Surviving(bsp_list, cutoff) ==
    {i \in 1..Len(bsp_list) : bsp_list[i].is_buy /\ Midnight(bsp_list[i].time) >= cutoff}

SetMax(S) == CHOOSE m \in S : \A x \in S : x <= m
SetMin(S) == CHOOSE m \in S : \A x \in S : m <= x

\* The last entry of results is the hit of the symbol analysed last.
HitReported ==
    /\ results # <<>>
    /\ results[Len(results)].code = AnalysedRow.code

\* C1: on return from scan_stocks every symbol has been classified exactly
\* once: success_count + fail_count equals the number of symbols, whatever the
\* engine did for each symbol.
C1_CountsPartition ==
    pc = "finish" => success_count + fail_count = Len(stock_list)

\* C2: an engine exception never aborts the run: on return the engine has been
\* invoked once for every symbol, in order; every symbol for which an exception
\* was raised adds one to fail_count and the loop goes on to the next row;
\* results only grows, and a symbol analysed without exception that has an
\* entry signal passing the recency filter is appended to results.
C2_FailureIsolation ==
    /\ [](pc = "finish" =>
            engine_calls = [i \in 1..Len(stock_list) |-> FullCode(stock_list[i].code)])
    /\ [][AnalyzeStep =>
            LET resp == last_resp'[1]
            IN  /\ Raised(resp, now) =>
                      /\ fail_count' = fail_count + 1
                      /\ idx' = idx + 1
                      /\ pc' = IF idx < Len(stock_list) THEN "report" ELSE "finish"
                /\ SubSeq(results', 1, Len(results)) = results
                /\ (Succeeded(resp, now) /\ Surviving(resp.bsp_list, cutoff_date) # {}) =>
                      /\ Len(results') = Len(results) + 1
                      /\ results'[Len(results')].code = stock_list[idx].code]_vars

\* C2 witness: in a universe of two the first symbol raised after the freshness
\* check, the second was still analysed and is the one hit returned.
C2_Witness ==
    /\ pc = "finish"
    /\ Len(stock_list) = 2
    /\ Len(engine_calls) = 2
    /\ success_count = 2
    /\ fail_count = 1
    /\ Len(results) = 1
    /\ results[1].code = stock_list[2].code

\* C3: an entry signal of day t counts toward a hit iff
\* now - recent_days <= t <= now by the calendar, now being the time the scan
\* started: a signal dated exactly recent_days days before the scan day counts
\* at any time of day, a signal dated after the scan day does not.
C3_ClosedInterval ==
    (Analysed /\ Succeeded(last_resp[1], now)) =>
        LET scan_day == Today(cutoff_date + recent_days * TicksPerDay)
            bsp_list == last_resp[1].bsp_list
        IN  HitReported <=>
                \E i \in 1..Len(bsp_list) :
                    /\ bsp_list[i].is_buy
                    /\ scan_day - recent_days <= bsp_list[i].time
                    /\ bsp_list[i].time <= scan_day

\* C4: the number of results equals the number of succeeded symbols with at
\* least one entry signal passing the recency filter: results starts empty,
\* each analysed symbol adds exactly one entry if it succeeded and has such a
\* buy signal and none otherwise (sell signals never count), and the found
\* count the handler stores is the length of the results it stores.
C4_HitCount ==
    /\ [](pc = "report" /\ idx = 1 => results = <<>>)
    /\ [][AnalyzeStep =>
            LET resp == last_resp'[1]
                hit == Succeeded(resp, now) /\ Surviving(resp.bsp_list, cutoff_date) # {}
            IN  Len(results') = Len(results) + (IF hit THEN 1 ELSE 0)]_vars
    /\ [](scan_stats # None =>
            scan_results # None /\ scan_stats[1].found = Len(scan_results[1]))

\* C4 witness: the symbol analysed last has a recent sell signal ranked before
\* a recent buy signal of another type, and its one result entry reports the buy.
C4_Witness ==
    /\ Analysed
    /\ Succeeded(last_resp[1], now)
    /\ Len(last_resp[1].bsp_list) = 2
    /\ ~last_resp[1].bsp_list[1].is_buy
    /\ Midnight(last_resp[1].bsp_list[1].time) >= cutoff_date
    /\ Surviving(last_resp[1].bsp_list, cutoff_date) = {2}
    /\ last_resp[1].bsp_list[2].type # last_resp[1].bsp_list[1].type
    /\ HitReported
    /\ results[Len(results)].bsp_type = last_resp[1].bsp_list[2].type
    /\ Len(results) = 1
    /\ idx = 2

\* C5: when entry signals of a symbol survive the recency filter, the signal
\* reported for the symbol is one with the most recent timestamp among them.
C5_MostRecentReported ==
    (Analysed /\ Succeeded(last_resp[1], now)) =>
        LET bsp_list == last_resp[1].bsp_list
            surv == Surviving(bsp_list, cutoff_date)
        IN  surv # {} =>
                LET latest == SetMax({bsp_list[i].time : i \in surv})
                IN  /\ HitReported
                    /\ results[Len(results)].bsp_time = TimeStr(latest)
                    /\ \E i \in surv :
                        /\ bsp_list[i].time = latest
                        /\ bsp_list[i].type = results[Len(results)].bsp_type

\* C5 witness: two entry signals of different days survive, and the later one
\* is reported.
C5_Witness ==
    /\ Analysed
    /\ Succeeded(last_resp[1], now)
    /\ Surviving(last_resp[1].bsp_list, cutoff_date) = {1, 2}
    /\ last_resp[1].bsp_list[1].time > last_resp[1].bsp_list[2].time
    /\ HitReported
    /\ results[Len(results)].bsp_time = TimeStr(last_resp[1].bsp_list[1].time)

\* The positions of the surviving entry signals with the most recent timestamp.
MostRecent(bsp_list, cutoff) ==
    LET surv == Surviving(bsp_list, cutoff)
    IN  {i \in surv : \A j \in surv : bsp_list[j].time <= bsp_list[i].time}

\* C6 (as claimed): among equally recent qualifying entry signals the one with
\* the larger index in the engine's list is reported.
C6_TieLargerIndex ==
    (Analysed /\ Succeeded(last_resp[1], now)) =>
        LET bsp_list == last_resp[1].bsp_list
            ties == MostRecent(bsp_list, cutoff_date)
        IN  Cardinality(ties) >= 2 =>
                /\ HitReported
                /\ results[Len(results)].bsp_type = bsp_list[SetMax(ties)].type
                /\ results[Len(results)].bsp_time = TimeStr(bsp_list[SetMax(ties)].time)

\* C6 (amended): among equally recent qualifying entry signals the one with
\* the smaller index in the engine's list (the earlier in engine output) is
\* reported.
C6_TieSmallerIndex ==
    (Analysed /\ Succeeded(last_resp[1], now)) =>
        LET bsp_list == last_resp[1].bsp_list
            ties == MostRecent(bsp_list, cutoff_date)
        IN  Cardinality(ties) >= 2 =>
                /\ HitReported
                /\ results[Len(results)].bsp_type = bsp_list[SetMin(ties)].type
                /\ results[Len(results)].bsp_time = TimeStr(bsp_list[SetMin(ties)].time)

\* C6 witness: two qualifying entry signals of the same day and of different
\* types, the first of which is reported.
C6_Witness ==
    /\ Analysed
    /\ Succeeded(last_resp[1], now)
    /\ MostRecent(last_resp[1].bsp_list, cutoff_date) = {1, 2}
    /\ last_resp[1].bsp_list[1].type # last_resp[1].bsp_list[2].type
    /\ HitReported
    /\ results[Len(results)].bsp_type = last_resp[1].bsp_list[1].type

\* C7: a symbol whose result has zero bars, or whose last bar is more than 15
\* calendar days before the current date, adds one to fail_count, nothing to
\* success_count and no result, and the loop goes on as after any other row;
\* a symbol whose last bar is 15 calendar days old or newer adds one to
\* success_count.
C7_Freshness ==
    [][AnalyzeStep =>
        LET resp == last_resp'[1]
            skipped == \/ resp.last_bar = None
                       \/ Today(now) - resp.last_bar[1] > StaleDays
        IN  resp.kind = "bars" =>
                /\ skipped =>
                      /\ fail_count' = fail_count + 1
                      /\ success_count' = success_count
                      /\ results' = results
                      /\ idx' = idx + 1
                      /\ pc' = IF idx < Len(stock_list) THEN "report" ELSE "finish"
                /\ ~skipped => success_count' = success_count + 1]_vars

\* C7 witness: the first symbol's last bar is exactly 15 calendar days old and
\* the symbol is counted as a success; no symbol has been skipped.
C7_Witness ==
    /\ Analysed
    /\ idx = 2
    /\ last_resp[1].kind = "bars"
    /\ last_resp[1].last_bar = Some(Today(now) - StaleDays)
    /\ ~last_resp[1].late_raise
    /\ success_count = 1
    /\ fail_count = 0

\* ------------------------------------------------------ caches: properties
\* C8: a load under the default key returns absent when no entry has been
\* written under today's date, whatever entries of earlier days are in the
\* store, and a load deletes and changes no entry: an entry written on day D
\* is neither reused nor deleted by a get issued on day D + 1.
C8_StaleAbsent ==
    /\ [](cache_get # None =>
            LET g == cache_get[1]
                absent == IF g.scope = "stock_list"
                          THEN stock_list_files[DateStr(g.day)] = None
                          ELSE analysis_files[<<DateStr(g.day), g.code>>] = None
            IN  (g.date_str = None /\ absent) => g.ret = None)
    /\ [][(cache_get' # cache_get /\ cache_get' # None) =>
            /\ stock_list_files' = stock_list_files
            /\ analysis_files' = analysis_files]_vars

\* C8 witness: a universe snapshot with rows was written on the first day, and
\* a load under the default key on the next day found nothing, the first day's
\* file still being there.
C8_Witness ==
    /\ cache_get # None
    /\ cache_get[1].scope = "stock_list"
    /\ cache_get[1].date_str = None
    /\ cache_get[1].day = Day0 + 1
    /\ cache_get[1].ret = None
    /\ stock_list_files[DateStr(Day0)] # None
    /\ stock_list_files[DateStr(Day0)][1].rows # <<>>
    /\ stock_list_files[DateStr(Day0 + 1)] = None

\* C9: within one calendar day the universe is fetched from the provider at
\* most once: after a fetch that returned a universe no later fetch of the same
\* day logs in to the provider, and the day's universe cache entry has been
\* written.
C9_FetchedOncePerDay ==
    /\ \A i, j \in 1..Len(login_log) :
        (i < j /\ login_log[i].day = login_log[j].day) => ~login_log[i].fetched
    /\ \A i \in 1..Len(login_log) :
        login_log[i].fetched => stock_list_files[DateStr(login_log[i].day)] # None

\* A put and a later get of the same key on the same calendar day, with no
\* other put in between.
PutGet ==
    /\ cache_put # None
    /\ cache_get # None
    /\ cache_get[1].scope = cache_put[1].scope
    /\ cache_get[1].date = cache_put[1].date
    /\ cache_get[1].code = cache_put[1].code
    /\ cache_get[1].day = cache_put[1].day

Range(f) == {f[i] : i \in DOMAIN f}

ReportStep == pc = "report" /\ pc' = "analyze"

\* The positions in the snapshot of the rows with the codes of res, when res
\* follows snapshot order.
InSnapshotOrder(res, snapshot) ==
    \E f \in [1..Len(res) -> 1..Len(snapshot)] :
        /\ \A i \in 1..Len(res) : res[i].code = snapshot[f[i]].code
        /\ \A i, j \in 1..Len(res) : i < j => f[i] < f[j]

\* C17: scan_stocks goes through the universe sequentially in snapshot order:
\* the k-th progress report and the k-th engine invocation are for the k-th
\* symbol of the snapshot, an invocation has returned or raised before the
\* next report or invocation, and results follows snapshot order.
C17_SnapshotOrder ==
    /\ [][ReportStep =>
            /\ progress' = progress + 1
            /\ status_text'[1].count = progress'
            /\ status_text'[1].code = stock_list[progress'].code
            /\ status_text'[1].name = stock_list[progress'].name
            /\ Len(engine_calls) = progress]_vars
    /\ [][AnalyzeStep =>
            /\ Len(engine_calls') = Len(engine_calls) + 1
            /\ engine_calls'[Len(engine_calls')]
                   = FullCode(stock_list[Len(engine_calls')].code)
            /\ SubSeq(engine_calls', 1, Len(engine_calls)) = engine_calls
            /\ last_resp' # None]_vars
    /\ [](pc # "idle" => InSnapshotOrder(results, stock_list))

\* C17 witness: in a universe of two both symbols are hits, returned in
\* snapshot order after two reports and two invocations.
C17_Witness ==
    /\ pc = "finish"
    /\ Len(stock_list) = 2
    /\ Len(results) = 2
    /\ results[1].code = stock_list[1].code
    /\ results[2].code = stock_list[2].code
    /\ stock_list[1].code # stock_list[2].code
    /\ progress = 2
    /\ Len(engine_calls) = 2

\* C18 (as claimed): the count k is reported only after the k-th symbol's
\* analysis has finished: the reported count is at most the number of
\* symbols analysed, and the total is reported only when all are done.
C18_ProgressAfterSymbol ==
    pc # "idle" =>
        /\ progress <= Len(engine_calls)
        /\ progress = Len(stock_list) => Len(engine_calls) = Len(stock_list)

\* C18 (amended): progress is reported exactly once per symbol, whatever the
\* symbol's outcome, and the count k is reported when the k-th iteration
\* starts, before the k-th symbol is analysed: the reported count is the
\* number of symbols analysed or one more, and on return it is the total.
C18_ProgressBeforeSymbol ==
    /\ [][ReportStep =>
            /\ progress' = progress + 1
            /\ progress' = Len(engine_calls) + 1]_vars
    /\ [][AnalyzeStep =>
            /\ progress' = progress
            /\ progress = Len(engine_calls')]_vars
    /\ [](pc # "idle" =>
            /\ Len(engine_calls) <= progress
            /\ progress <= Len(engine_calls) + 1)
    /\ [](pc = "finish" => progress = Len(stock_list))

\* C18 witness: the total is shown while the last of two symbols has not
\* been analysed yet, the first having been skipped or failed.
C18_Witness ==
    /\ pc = "analyze"
    /\ Len(stock_list) = 2
    /\ progress = 2
    /\ Len(engine_calls) = 1
    /\ fail_count = 1
    /\ success_count = 0

\* ------------------------------------------------ universe: properties
\* The exclusion rules the docstring of get_tradable_stocks lists, on a symbol
\* of the output ...
ExcludedSymbol(r) ==
    \/ ContainsNoCase(r.name, ST)
    \/ StartsWith(r.code, <<"6", "8", "8">>)
    \/ StartsWith(r.code, <<"8">>)
    \/ StartsWith(r.code, <<"4", "3">>)
    \/ StartsWith(r.code, <<"2", "0", "0">>)
    \/ StartsWith(r.code, <<"9", "0", "0">>)
    \/ StartsWith(r.code, <<"9", "2", "0">>)

\* ... and on the raw row it stems from.
ExcludedRaw(r, has_status) ==
    \/ StartsWith(r.code, BJ)
    \/ has_status /\ r.tradeStatus # "1"

\* The symbol a raw row becomes in the output.
SymbolOf(r) == [code |-> SubSeq(r.code, 4, Len(r.code)), name |-> r.code_name]

\* C11: the output of get_tradable_stocks contains no symbol matching a
\* documented exclusion rule: ST name, code prefix 688, 8, 43, 200, 900 or 920,
\* a bj. exchange tag, or a tradeStatus other than '1'.
C11_NoExcluded ==
    fetch_run # None =>
        LET b == fetch_call[1]
            out == fetch_run[1].df
        IN  /\ \A i \in 1..Len(out) : ~ExcludedSymbol(out[i])
            /\ \A j \in 1..Len(b.rows) :
                    ExcludedRaw(b.rows[j], b.has_status) =>
                        \A i \in 1..Len(out) : out[i] # SymbolOf(b.rows[j])

\* C12: a universe snapshot returned by get_tradable_stocks contains each
\* symbol code at most once.
C12_UniqueCodes ==
    fetch_run # None =>
        LET out == fetch_run[1].df
        IN  \A i, j \in 1..Len(out) : i # j => out[i].code # out[j].code

\* C13: when the provider login succeeded, logout has been called after it
\* by the time get_tradable_stocks returns, on every path.
C13_LogoutAfterLogin ==
    fetch_run # None =>
        LET calls == fetch_run[1].calls
        IN  fetch_call[1].login = "ok" =>
                /\ calls[1] = "login"
                /\ \E i \in 2..Len(calls) : calls[i] = "logout"

\* C13 witness: the listing query raised after a successful login, and the
\* session was closed by the exception handler.
C13_Witness ==
    /\ fetch_run # None
    /\ fetch_call[1].login = "ok"
    /\ fetch_call[1].query = "raise"
    /\ fetch_run[1].calls = <<"login", "query", "logout">>
    /\ fetch_run[1].df = <<>>

\* C14: a listing query that succeeds with zero rows is neither treated nor
\* reported as an error, a failed login or listing query yields zero
\* candidates and an error, and the handler reports failure only for the
\* latter.
C14_EmptyIsNotFailure ==
    fetch_run # None =>
        LET b == fetch_call[1]
            run == fetch_run[1]
            failed == b.login # "ok" \/ b.query # "rows"
            zero == b.login = "ok" /\ b.query = "rows" /\ b.rows = <<>> /\ b.read_raise = 0
        IN  /\ failed => (run.df = <<>> /\ run.msgs = <<"error">> /\ fetch_report[1] = "error")
            /\ zero => (run.df = <<>> /\ run.msgs # <<"error">> /\ fetch_report[1] # "error")

\* a is b with some entries left out.
IsSubseq(a, b) ==
    \E f \in [1..Len(a) -> 1..Len(b)] :
        /\ \A i, j \in 1..Len(a) : i < j => f[i] < f[j]
        /\ \A i \in 1..Len(a) : b[f[i]] = a[i]

\* The provider rows with the exchange tag stripped and the name column.
Normalised(rows) ==
    [i \in 1..Len(rows) |->
        [code |-> StrRemove(StrRemove(rows[i].code, SH), SZ), name |-> rows[i].code_name]]

\* C23: the filter only removes: the output of get_tradable_stocks is a
\* subsequence of the normalised provider rows, and the chain without any one
\* of its predicates gives an output that contains this output, in order.
C23_OnlyRemoves ==
    fetch_run # None =>
        LET b == fetch_call[1]
            out == fetch_run[1].df
        IN  /\ IsSubseq(out, Normalised(RowsRead(b)))
            /\ \A p \in FilterPredicates :
                    IsSubseq(out, FilterChainOf(RowsRead(b), b.has_status,
                                                FilterPredicates \ {p}))

\* C23 witness: of two provider rows one was removed by the ST predicate; the
\* chain without that predicate keeps both.
C23_Witness ==
    /\ fetch_run # None
    /\ Len(RowsRead(fetch_call[1])) = 2
    /\ Len(fetch_run[1].df) = 1
    /\ Len(FilterChainOf(RowsRead(fetch_call[1]), fetch_call[1].has_status,
                          FilterPredicates \ {"st"})) = 2

\* The provider rows that survive the chain, as the provider gave them.
Survivors(rows, has_status) ==
    SelectSeq(rows, LAMBDA r : FilterChain(<<r>>, has_status) # <<>>)

\* C24: for every provider row sh.N or sz.N that survives get_tradable_stocks,
\* the full code scan_stocks hands to the engine for its row of the universe is
\* the provider's qualified code again.
C24_PrefixRoundTrip ==
    (fetch_run # None /\ fetch_run[1].df # <<>>) =>
        LET b == fetch_call[1]
            out == fetch_run[1].df
            raw == Survivors(RowsRead(b), b.has_status)
        IN  /\ Len(out) = Len(raw)
            /\ \A i \in 1..Len(out) : FullCode(out[i].code) = raw[i].code

\* C29: in one execution of get_tradable_stocks logout is called at most
\* once, and only if the login of that execution succeeded.
C29_LogoutAtMostOnce ==
    fetch_run # None =>
        LET calls == fetch_run[1].calls
            logouts == {i \in 1..Len(calls) : calls[i] = "logout"}
        IN  /\ Cardinality(logouts) <= 1
            /\ logouts # {} => fetch_call[1].login = "ok"

\* ------------------------------------------------- data source: properties
\* C27: all engine invocations of one scan_stocks run use the same data
\* source, also when config.json is rewritten by another session during the
\* scan and the scanning session has no app_data_source.
C27_OneSourcePerScan ==
    app_data_source = None =>
        \A i, j \in 1..Len(source_calls) : source_calls[i] = source_calls[j]

\* ---------------------------------------------------- archive: properties
\* A save_scan_results call has just been made.
ArchiveStep == archive_runs' = archive_runs + 1

HitCodes(res) == {res[i].code : i \in 1..Len(res)}

\* C19: a failure to produce the chart of one hit, a failure while its chart
\* driver is constructed included, does not abort the archive: the path is
\* returned, the table and the statistics are written, the charts of the
\* other hits are produced, and the failing symbol is in chart_errors.log
\* with its code and error.
C19_ChartFailureIsolated ==
    archive_call # None =>
        LET c == archive_call[1]
            res == c.results
            fails(r) == r.chan # None /\ r.chan[1].driver \in {"ctor_raise", "plot_raise"}
        IN  (c.io = "none" /\ \E i \in 1..Len(res) : fails(res[i])) =>
                /\ c.ret = Some(c.date)
                /\ archive_table[c.date] = Some(TableRows(res))
                /\ archive_stats[c.date] = Some(StatsRecord(c.date, res, c.stats))
                /\ \A i \in 1..Len(res) :
                        (res[i].chan # None /\ res[i].chan[1].driver = "ok") =>
                            archive_charts[c.date][ChartName(res[i].code, "DAY")]
                                = Some([code |-> res[i].chan[1].code, run |-> c.run])
                /\ archive_log[c.date] # None
                /\ \A i \in 1..Len(res) :
                        fails(res[i]) =>
                            \E k \in 1..Len(archive_log[c.date][1].errors) :
                                archive_log[c.date][1].errors[k]
                                    = [code |-> res[i].code, error |-> res[i].chan[1].driver]

\* The call just made found an archive of its date: it is a re-archive.
ReArchiveStep ==
    /\ ArchiveStep
    /\ archive_table[archive_call'[1].date] # None
    /\ archive_call'[1].io = "none"

\* What the call just made did to the charts: the chart of every symbol that
\* is not in its run stays, a chart that changed is of a symbol of its run
\* and was written by it, and nothing of another date is touched.
ChartFrame ==
    LET c == archive_call'[1]
    IN  /\ \A name \in ChartNames :
              name[1] \notin HitCodes(c.results) =>
                  archive_charts'[c.date][name] = archive_charts[c.date][name]
        /\ \A name \in ChartNames :
              archive_charts'[c.date][name] # archive_charts[c.date][name] =>
                  /\ name[1] \in HitCodes(c.results)
                  /\ archive_charts'[c.date][name] # None
                  /\ archive_charts'[c.date][name][1].run = c.run
        /\ \A date \in ArchiveDates \ {c.date} :
              /\ archive_table'[date] = archive_table[date]
              /\ archive_stats'[date] = archive_stats[date]
              /\ archive_charts'[date] = archive_charts[date]

\* C20: re-archiving a date replaces the whole content of scan_results and
\* scan_stats of that date by the content of the new run, leaves in place the
\* chart of every symbol that is not in the new run, and rewrites charts of
\* symbols of the new run only.
C20_ArchiveFrame ==
    [][ReArchiveStep =>
        LET c == archive_call'[1]
        IN  /\ archive_table'[c.date] = Some(TableRows(c.results))
            /\ archive_stats'[c.date] = Some(StatsRecord(c.date, c.results, c.stats))
            /\ ChartFrame]_vars

\* C25: a save_scan_results call that returns None leaves the archive of its
\* date as it was before the call: table, statistics, charts and manifest are
\* unchanged, so table and statistics are both absent or both those of one
\* earlier run.
C25_FailureLeavesArchive ==
    [][(ArchiveStep /\ archive_call'[1].ret = None) =>
            /\ archive_table' = archive_table
            /\ archive_stats' = archive_stats
            /\ archive_charts' = archive_charts
            /\ archive_log' = archive_log]_vars

\* C25, the failing input: the call returned None, the table of the date is
\* that of its two hits and the statistics are still those of an earlier run
\* with one hit.
C25_Witness ==
    /\ archive_call # None
    /\ archive_call[1].ret = None
    /\ archive_call[1].io = "stats"
    /\ Len(archive_call[1].results) = 2
    /\ archive_table[archive_call[1].date] = Some(TableRows(archive_call[1].results))
    /\ archive_stats[archive_call[1].date] # None
    /\ archive_stats[archive_call[1].date] # Damaged
    /\ archive_stats[archive_call[1].date][1].total_found = 1

\* The codes of the hits of a call whose chart was not produced.
ChartFailures(res) ==
    {res[i].code : i \in {j \in 1..Len(res) :
                            res[j].chan = None \/ res[j].chan[1].driver # "ok"}}

\* C26: after a successful save_scan_results, chart_errors.log of the date
\* exists iff a chart failed in that call, and it lists exactly the symbols
\* whose chart failed in that call, whatever manifest an earlier run left.
C26_ManifestOfThisRun ==
    [][(ArchiveStep /\ archive_call'[1].ret # None) =>
            LET c == archive_call'[1]
                log == archive_log'[c.date]
            IN  /\ log # None <=> ChartFailures(c.results) # {}
                /\ log # None =>
                      {log[1].errors[k].code : k \in 1..Len(log[1].errors)}
                          = ChartFailures(c.results)]_vars

\* ----------------------------------------- archive of a scan: properties
\* The call of save_scan_results made last returned the path of the archive.
Saved == archive_call # None /\ archive_call[1].ret # None

\* The day on which the scan of the session was started.
ScanDay == login_log[Len(login_log)].day

\* The chart files present in the archive of a date.
ChartsOf(date) == {name \in ChartNames : archive_charts[date][name] # None}

C22_KeyedByScanDate ==
    Saved =>
        /\ archive_call[1].date = DateStr(ScanDay)
        /\ archive_stats[archive_call[1].date][1].scan_date = DateStr(ScanDay)

\* ------------------------------------------- single analysis: properties
\* A Start Analysis press has just been handled.
AnalysisStep == single_call' # single_call /\ single_call' # None

\* C15: the per-symbol analysis never propagates an exception: whenever the
\* data source or the engine raises, analyze_stock returns None and the
\* handler ends with its error message; in the scan loop a symbol for which
\* an exception is raised is counted in fail_count and the loop goes on; and
\* a failed single-symbol analysis leaves the handle and the code stored in
\* the session unchanged.
C15_NoPropagation ==
    /\ [](single_call # None =>
            (single_call[1].engine \in {"source_raise", "chan_raise"} =>
                single_call[1].ret = None /\ single_call[1].msg = "error"))
    /\ [][(AnalysisStep /\ single_call'[1].ret = None) =>
            (single_chan' = single_chan /\ single_code' = single_code)]_vars
    /\ [][(AnalyzeStep /\ Raised(last_resp'[1], now)) =>
            /\ fail_count' = fail_count + 1
            /\ idx' = idx + 1
            /\ pc' \in {"report", "finish"}]_vars

\* C15 witness: after a successful analysis of one code the engine raised for
\* another, and the session still holds the handle and the code of the first.
C15_Witness ==
    /\ single_call # None
    /\ single_call[1].engine = "chan_raise"
    /\ single_call[1].ret = None
    /\ single_chan # None
    /\ single_code # None
    /\ single_code[1] # single_call[1].stock_code
    /\ single_chan[1].code = AnalyzeCode(single_code[1])

\* ------------------------------------------ code normalisation: properties
IsTagged(code) == StartsWith(code, SH) \/ StartsWith(code, SZ)
IsNumeric(code) == code # <<>> /\ \A i \in 1..Len(code) : code[i] \in Digits

\* C16: the full code of a bare numeric code is 'sh.' + code when it begins
\* with 600, 601, 603, 605 or 688 and 'sz.' + code otherwise; a code with an
\* sh. or sz. tag is passed through unchanged, so normalising twice is
\* normalising once; and scan_stocks, analyze_stock and format_code give the
\* same full code for every input.
C16_FullCode ==
    code_call # None =>
        LET c == code_call[1]
            shanghai == \E p \in {<<"6", "0", "0">>, <<"6", "0", "1">>, <<"6", "0", "3">>,
                                  <<"6", "0", "5">>, <<"6", "8", "8">>} : StartsWith(c.code, p)
        IN  /\ c.scan = c.analyze
            /\ c.analyze = c.format
            /\ IsNumeric(c.code) => c.analyze = (IF shanghai THEN SH ELSE SZ) \o c.code
            /\ IsTagged(c.code) => c.analyze = c.code
            /\ c.scan_twice = c.scan
            /\ c.analyze_twice = c.analyze
            /\ c.format_twice = c.format

\* C16 witness: the bare code 688001 was normalised to sh.688001 by all three.
C16_Witness ==
    /\ code_call # None
    /\ code_call[1].code = <<"6", "8", "8", "0", "0", "1">>
    /\ code_call[1].scan = SH \o <<"6", "8", "8", "0", "0", "1">>
    /\ code_call[1].analyze = code_call[1].scan
    /\ code_call[1].format = code_call[1].scan

\* ------------------------------------------- concurrent caches: properties
AllWritten == \A w \in Writers : race_writers[w].pc = "done"

\* C28: with two invocations writing one cache key at the same time and a
\* third one reading it, the file left after both writes is the complete
\* payload of one of the two writers, and every load returns nothing or the
\* complete payload of one writer.
C28_WholePayloads ==
    /\ AllWritten => IsPayload(race_file)
    /\ race_get # None => race_get[1].ret = None \/ IsPayload(race_get[1].ret[1])

\* Both writes are over and a load was made while a writer was writing.
C28_Witness ==
    /\ AllWritten
    /\ race_get # None
    /\ race_get[1].writing # {}

\* ------------------------------------------------- MySQL_API: properties
\* C30: every call on one MySQL_API instance that executes its query does so
\* on an open connection, and every call leaves no open connection behind.
C30_QueryOnOpenConnection ==
    \A i \in 1..Len(db_log) :
        /\ db_log[i].at_query # None => db_log[i].at_query = Some(OpenConnection)
        /\ db_log[i].after # OpenConnection

\* A second call was made on the instance after one that had connected.
C30_Witness ==
    /\ Len(db_log) >= 2
    /\ db_log[1].connected
    /\ db_log[2].at_query # None

====
